---------------------------- MODULE Spec2Model ----------------------------
(***************************************************************************)
(* Model of tuner/tuner/common.py: the data model of the GPU kernel tuner. *)
(*                                                                         *)
(* Python strings are sequences of one-character strings, so that every    *)
(* rendering (str(), upper(), lower(), title(), join, f-strings) is        *)
(* computed character by character as the interpreter computes it.         *)
(* An Optional[T] value is <<>> for None and <<v>> for the value v.        *)
(* An MLIR type handle is a record [cls, width]; two handles are equal iff *)
(* they denote the same type.                                              *)
(***************************************************************************)
EXTENDS Integers, Sequences, FiniteSets, TLC

VARIABLES
    op,     \* the function or constructor of common.py applied last
    arg,    \* its argument(s)
    ret,    \* the value it returned (NoValue while running or when it raised)
    err,    \* the exception it raised, "" for none
    pc,     \* the statement a constructor call in progress executes next
    tuner,  \* the TunerContext under construction: the attributes assigned so far
    types   \* the CommonTypes under construction: the attributes assigned so far

vars == <<op, arg, ret, err, pc, tuner, types>>

-----------------------------------------------------------------------------
(* Bounds of the model *)

\* longest shape given to ShapedType.__str__
MaxRank == 3

\* longest shape given to ConvDimInfo.from_rhs_res
MaxConvRank == 5

-----------------------------------------------------------------------------
(* Python string primitives *)

LowerAlpha == <<"a", "b", "c", "d", "e", "f", "g", "h", "i", "j", "k", "l", "m", "n", "o", "p", "q", "r", "s", "t", "u", "v", "w", "x", "y", "z">>
UpperAlpha == <<"A", "B", "C", "D", "E", "F", "G", "H", "I", "J", "K", "L", "M", "N", "O", "P", "Q", "R", "S", "T", "U", "V", "W", "X", "Y", "Z">>
DigitChars == <<"0", "1", "2", "3", "4", "5", "6", "7", "8", "9">>

IsLowerChar(c) == \E i \in 1..26 : LowerAlpha[i] = c
IsUpperChar(c) == \E i \in 1..26 : UpperAlpha[i] = c
IsCased(c) == IsLowerChar(c) \/ IsUpperChar(c)

UpperChar(c) ==
    IF IsLowerChar(c) THEN UpperAlpha[CHOOSE i \in 1..26 : LowerAlpha[i] = c]
    ELSE c

LowerChar(c) ==
    IF IsUpperChar(c) THEN LowerAlpha[CHOOSE i \in 1..26 : UpperAlpha[i] = c]
    ELSE c

\* str.upper()
Upper(s) == [i \in 1..Len(s) |-> UpperChar(s[i])]

\* str.lower()
Lower(s) == [i \in 1..Len(s) |-> LowerChar(s[i])]

\* str.title(): a cased character is upper-cased when it starts a word (the
\* character before it is not cased) and lower-cased otherwise
Title(s) ==
    [i \in 1..Len(s) |->
        IF i > 1 /\ IsCased(s[i - 1]) THEN LowerChar(s[i]) ELSE UpperChar(s[i])]

RECURSIVE Digits(_)
Digits(n) ==
    IF n < 10 THEN <<DigitChars[n + 1]>>
    ELSE Digits(n \div 10) \o <<DigitChars[(n % 10) + 1]>>

\* str(int)
IntStr(n) == IF n < 0 THEN <<"-">> \o Digits(-n) ELSE Digits(n)

\* str(bool)
BoolStr(b) == IF b THEN <<"T", "r", "u", "e">> ELSE <<"F", "a", "l", "s", "e">>

RECURSIVE Join(_, _)
\* sep.join(items)
Join(sep, items) ==
    IF Len(items) = 0 THEN <<>>
    ELSE IF Len(items) = 1 THEN items[1]
    ELSE items[1] \o sep \o Join(sep, Tail(items))

\* Python's None for an Optional field, and a present value
None == <<>>
Some(v) == <<v>>
NoValue == "NoValue"

-----------------------------------------------------------------------------
(* MLIR types: CommonTypes *)

IntegerType(w) == [cls |-> "IntegerType", width |-> w]
Float8E4M3FNUZType == [cls |-> "Float8E4M3FNUZType", width |-> 8]
Float8E5M2FNUZType == [cls |-> "Float8E5M2FNUZType", width |-> 8]
F16Type == [cls |-> "F16Type", width |-> 16]
F32Type == [cls |-> "F32Type", width |-> 32]
BF16Type == [cls |-> "BF16Type", width |-> 16]

\* the attributes CommonTypes.__init__ assigns, in assignment order, each with
\* the type it is bound to and the line of the assignment
CommonTypeFields ==
    << <<"i1", IntegerType(1), 19>>,
       <<"i8", IntegerType(8), 20>>,
       <<"i16", IntegerType(16), 21>>,
       <<"i32", IntegerType(32), 22>>,
       <<"f8E4M3FNUZ", Float8E4M3FNUZType, 24>>,
       <<"f8E5M2FNUZ", Float8E5M2FNUZType, 25>>,
       <<"f16", F16Type, 26>>,
       <<"f32", F32Type, 27>>,
       <<"bf16", BF16Type, 29>> >>

ElementTypes == {CommonTypeFields[i][2] : i \in 1..Len(CommonTypeFields)}

\* str(element_type): the type as the compiler prints it
TypeStr(t) ==
    CASE t.cls = "IntegerType" -> <<"i">> \o IntStr(t.width)
      [] t.cls = "Float8E4M3FNUZType" -> <<"f", "8", "E", "4", "M", "3", "F", "N", "U", "Z">>
      [] t.cls = "Float8E5M2FNUZType" -> <<"f", "8", "E", "5", "M", "2", "F", "N", "U", "Z">>
      [] t.cls = "F16Type" -> <<"f", "1", "6">>
      [] t.cls = "F32Type" -> <<"f", "3", "2">>
      [] t.cls = "BF16Type" -> <<"b", "f", "1", "6">>

-----------------------------------------------------------------------------
(* DispatchKind *)

DispatchKind ==
    {"conv", "mmt", "contraction", "batch_mmt", "batch_matmul", "broadcast_rhs_mmt"}

-----------------------------------------------------------------------------
(* ShapedType *)

ShapedType(shape, element_type) ==
    [shape |-> shape, element_type |-> element_type]

\* dim_to_str with the dynamic dimension tested as dim < 0
dim_to_str_negative(dim) == IF dim >= 0 THEN IntStr(dim) ELSE <<"?">>

\* the lambda of ShapedType.__str__
dim_to_str(dim) == IF dim # -1 THEN IntStr(dim) ELSE <<"?">>

\* ShapedType.__str__
ShapedTypeStr(st) ==
    Join(<<"x">>, [i \in 1..Len(st.shape) |-> dim_to_str(st.shape[i])])
        \o <<"x">> \o TypeStr(st.element_type)

-----------------------------------------------------------------------------
(* MatmulSize, ProblemSize *)

MatmulSize(M, N, K, B) == [M |-> M, N |-> N, K |-> K, B |-> B]

ProblemSize(matmul_size, lhs_type, rhs_type, res_type, dispatch_kind) ==
    [matmul_size |-> matmul_size, lhs_type |-> lhs_type, rhs_type |-> rhs_type,
     res_type |-> res_type, dispatch_kind |-> dispatch_kind]

-----------------------------------------------------------------------------
(* MfmaIntrinsic *)

MfmaIntrinsic(output_type, m, n, k, input_type) ==
    [output_type |-> output_type, m |-> m, n |-> n, k |-> k,
     input_type |-> input_type]

\* MfmaIntrinsic.__str__ with input and output exchanged in the f-string
MfmaIntrinsicStr_swapped(self_) ==
    LET input == Upper(TypeStr(self_.input_type))
        output == Upper(TypeStr(self_.output_type))
    IN  <<"M", "F", "M", "A", "_">> \o input \o <<"_">> \o IntStr(self_.m) \o <<"x">> \o IntStr(self_.n)
            \o <<"x">> \o IntStr(self_.k) \o <<"_">> \o output

\* MfmaIntrinsic.__str__
MfmaIntrinsicStr(self_) ==
    LET input == Upper(TypeStr(self_.input_type))
        output == Upper(TypeStr(self_.output_type))
    IN  <<"M", "F", "M", "A", "_">> \o output \o <<"_">> \o IntStr(self_.m) \o <<"x">> \o IntStr(self_.n)
            \o <<"x">> \o IntStr(self_.k) \o <<"_">> \o input

mfma_f32_16x16x16_f16 == MfmaIntrinsic(F32Type, 16, 16, 16, F16Type)
mfma_f32_32x32x8_f16 == MfmaIntrinsic(F32Type, 32, 32, 8, F16Type)
mfma_i32_16x16x32_i8 == MfmaIntrinsic(IntegerType(32), 16, 16, 32, IntegerType(8))
mfma_i32_32x32x16_i8 == MfmaIntrinsic(IntegerType(32), 32, 32, 16, IntegerType(8))

\* MfmaIntrinsic.all() with its first two items exchanged
MfmaIntrinsicAll_reordered ==
    <<mfma_f32_32x32x8_f16, mfma_f32_16x16x16_f16,
      mfma_i32_16x16x32_i8, mfma_i32_32x32x16_i8>>

\* MfmaIntrinsic.all()
MfmaIntrinsicAll ==
    <<mfma_f32_16x16x16_f16, mfma_f32_32x32x8_f16,
      mfma_i32_16x16x32_i8, mfma_i32_32x32x16_i8>>

\* is_compatible without the test of the rhs element type
is_compatible_lhs_only(problem_size, intrinsic) ==
    IF problem_size.res_type.element_type # intrinsic.output_type THEN FALSE
    ELSE IF problem_size.dispatch_kind # "batch_matmul"
            /\ problem_size.lhs_type.element_type # intrinsic.input_type THEN FALSE
    ELSE TRUE

\* is_compatible testing the operand types for every dispatch kind
is_compatible_every_kind(problem_size, intrinsic) ==
    IF problem_size.res_type.element_type # intrinsic.output_type THEN FALSE
    ELSE IF problem_size.lhs_type.element_type # intrinsic.input_type THEN FALSE
    ELSE IF problem_size.rhs_type.element_type # intrinsic.input_type THEN FALSE
    ELSE TRUE

\* the inner function of get_compatible_mfma_intrinsics
is_compatible(problem_size, intrinsic) ==
    IF problem_size.res_type.element_type # intrinsic.output_type THEN FALSE
    ELSE IF problem_size.dispatch_kind # "batch_matmul"
            /\ problem_size.lhs_type.element_type # intrinsic.input_type THEN FALSE
    ELSE IF problem_size.dispatch_kind # "batch_matmul"
            /\ problem_size.rhs_type.element_type # intrinsic.input_type THEN FALSE
    ELSE TRUE

RECURSIVE filter_is_compatible(_, _)
\* list(filter(is_compatible, xs)): the items of xs that are compatible, in the
\* order of xs
filter_is_compatible(problem_size, xs) ==
    IF xs = <<>> THEN <<>>
    ELSE (IF is_compatible(problem_size, Head(xs)) THEN <<Head(xs)>> ELSE <<>>)
            \o filter_is_compatible(problem_size, Tail(xs))

get_compatible_mfma_intrinsics(problem_size) ==
    filter_is_compatible(problem_size, MfmaIntrinsicAll)

-----------------------------------------------------------------------------
(* ReorderWorkgroupsStrategy, GpuPipelineOptions *)

\* the members of the enumeration, by name, in declaration order
ReorderWorkgroupsStrategy == <<"NONE", "SWIZZLE", "TRANSPOSE">>

\* member.name as a Python string
StrategyName(s) ==
    CASE s = "NONE" -> <<"N", "O", "N", "E">>
      [] s = "SWIZZLE" -> <<"S", "W", "I", "Z", "Z", "L", "E">>
      [] s = "TRANSPOSE" -> <<"T", "R", "A", "N", "S", "P", "O", "S", "E">>

\* ReorderWorkgroupsStrategy.__str__ returning self.name as it is
StrategyStr_name(s) == StrategyName(s)

\* ReorderWorkgroupsStrategy.__str__
StrategyStr(s) == Title(StrategyName(s))

GpuPipelineOptions(prefetch, no_reduce, reorder) ==
    [prefetch_shared_memory |-> prefetch,
     no_reduce_shared_memory_bank_conflicts |-> no_reduce,
     reorder_workgroups_strategy |-> reorder]

\* all_default testing truthiness, all(not x for x in astuple(self)): False
\* is falsy, a member of the enumeration is not
all_default_falsy(o) ==
    /\ o.prefetch_shared_memory \in {None, Some(FALSE)}
    /\ o.no_reduce_shared_memory_bank_conflicts \in {None, Some(FALSE)}
    /\ o.reorder_workgroups_strategy = None

\* GpuPipelineOptions.all_default: all(x is None for x in astuple(self))
all_default(o) ==
    /\ o.prefetch_shared_memory = None
    /\ o.no_reduce_shared_memory_bank_conflicts = None
    /\ o.reorder_workgroups_strategy = None

\* GpuPipelineOptions.__str__
GpuPipelineOptionsStr(o) ==
    LET options0 == <<>>
        options1 ==
            IF o.prefetch_shared_memory # None
            THEN Append(options0,
                    <<"p", "r", "e", "f", "e", "t", "c", "h", "_", "s", "h", "a", "r", "e", "d", "_", "m", "e", "m", "o", "r", "y", " ", "=", " ">>
                        \o Lower(BoolStr(o.prefetch_shared_memory[1])))
            ELSE options0
        options2 ==
            IF o.no_reduce_shared_memory_bank_conflicts # None
            THEN Append(options1,
                    <<"n", "o", "_", "r", "e", "d", "u", "c", "e", "_", "s", "h", "a", "r", "e", "d", "_", "m", "e", "m", "o", "r", "y", "_", "b", "a", "n", "k", "_", "c", "o", "n", "f", "l", "i", "c", "t", "s", " ", "=", " ">>
                        \o Lower(BoolStr(o.no_reduce_shared_memory_bank_conflicts[1])))
            ELSE options1
        options3 ==
            IF o.reorder_workgroups_strategy # None
            THEN Append(options2,
                    <<"r", "e", "o", "r", "d", "e", "r", "_", "w", "o", "r", "k", "g", "r", "o", "u", "p", "s", "_", "s", "t", "r", "a", "t", "e", "g", "y", " ", "=", " ">>
                        \o StrategyStr(o.reorder_workgroups_strategy[1]))
            ELSE options2
    IN  <<"#", "i", "r", "e", "e", "_", "g", "p", "u", ".", "p", "i", "p", "e", "l", "i", "n", "e", "_", "o", "p", "t", "i", "o", "n", "s", "<">> \o Join(<<",", " ">>, options3) \o <<">">>

-----------------------------------------------------------------------------
(* Configuration, get_pipeline_config *)

Configuration(subgroup_size, workgroup_size, intrinsic, tile_sizes, subgroup_m_count, subgroup_n_count, gpu_pipeline_options, waves_per_eu) ==
    [subgroup_size |-> subgroup_size, workgroup_size |-> workgroup_size,
     intrinsic |-> intrinsic, tile_sizes |-> tile_sizes,
     subgroup_m_count |-> subgroup_m_count, subgroup_n_count |-> subgroup_n_count,
     gpu_pipeline_options |-> gpu_pipeline_options, waves_per_eu |-> waves_per_eu]

\* get_pipeline_config appending the pipeline options unconditionally
get_pipeline_config_unconditional(configuration) ==
    LET extra_config1 ==
            <<",", " ", "g", "p", "u", "_", "p", "i", "p", "e", "l", "i", "n", "e", "_", "o", "p", "t", "i", "o", "n", "s", " ", "=", " ">>
                \o GpuPipelineOptionsStr(configuration.gpu_pipeline_options)
        extra_config2 ==
            IF configuration.waves_per_eu # 2
            THEN extra_config1 \o <<",", " ", "l", "l", "v", "m", "_", "f", "u", "n", "c", "_", "a", "t", "t", "r", "s", " ", "=", " ", "{", "\"", "a", "m", "d", "g", "p", "u", "-", "w", "a", "v", "e", "s", "-", "p", "e", "r", "-", "e", "u", "\"", " ", "=", " ", "\"">>
                    \o IntStr(configuration.waves_per_eu) \o <<"\"", "}">>
            ELSE extra_config1
    IN  extra_config2

get_pipeline_config(configuration) ==
    LET extra_config0 == <<>>
        extra_config1 ==
            IF ~all_default(configuration.gpu_pipeline_options)
            THEN extra_config0 \o <<",", " ", "g", "p", "u", "_", "p", "i", "p", "e", "l", "i", "n", "e", "_", "o", "p", "t", "i", "o", "n", "s", " ", "=", " ">>
                    \o GpuPipelineOptionsStr(configuration.gpu_pipeline_options)
            ELSE extra_config0
        extra_config2 ==
            IF configuration.waves_per_eu # 2
            THEN extra_config1 \o <<",", " ", "l", "l", "v", "m", "_", "f", "u", "n", "c", "_", "a", "t", "t", "r", "s", " ", "=", " ", "{", "\"", "a", "m", "d", "g", "p", "u", "-", "w", "a", "v", "e", "s", "-", "p", "e", "r", "-", "e", "u", "\"", " ", "=", " ", "\"">>
                    \o IntStr(configuration.waves_per_eu) \o <<"\"", "}">>
            ELSE extra_config1
    IN  extra_config2

-----------------------------------------------------------------------------
(* ConvDimInfo *)

ConvDimInfo(n, oh, ow, oc, fh, fw, ic) ==
    [n |-> n, oh |-> oh, ow |-> ow, oc |-> oc, fh |-> fh, fw |-> fw, ic |-> ic]

\* the outcome of a call: the value returned, or the exception raised
Returned(v) == [ret |-> v, err |-> ""]
Raised(e) == [ret |-> NoValue, err |-> e]

\* from_rhs_res unpacking the rhs shape as _, fh, fw, ic
from_rhs_res_shifted(rhs_shaped_type, res_shaped_type) ==
    IF Len(res_shaped_type.shape) # 4 THEN Raised("ValueError")
    ELSE IF Len(rhs_shaped_type.shape) # 4 THEN Raised("ValueError")
    ELSE LET res == res_shaped_type.shape
             rhs == rhs_shaped_type.shape
         IN  Returned(ConvDimInfo(res[1], res[2], res[3], res[4],
                                  rhs[2], rhs[3], rhs[4]))

\* ConvDimInfo.from_rhs_res: each tuple assignment raises ValueError unless
\* the shape has exactly four items; the result shape is unpacked first
from_rhs_res(rhs_shaped_type, res_shaped_type) ==
    IF Len(res_shaped_type.shape) # 4 THEN Raised("ValueError")
    ELSE IF Len(rhs_shaped_type.shape) # 4 THEN Raised("ValueError")
    ELSE LET res == res_shaped_type.shape
             rhs == rhs_shaped_type.shape
         IN  Returned(ConvDimInfo(res[1], res[2], res[3], res[4],
                                  rhs[1], rhs[2], rhs[3]))

\* ConvDimInfo.from_problem_size
from_problem_size(problem_size) ==
    from_rhs_res(problem_size.rhs_type, problem_size.res_type)

-----------------------------------------------------------------------------
(* Inputs *)

\* dimension sizes of a shape to render: dynamic (-1), negative, zero, and
\* sizes of one to three decimal digits
Dims == {-2, -1, 0, 2, 4, 16, 128}

Shapes == UNION {[1..r -> Dims] : r \in 0..MaxRank}

\* dimension sizes of a convolution's shapes
ConvDims == {2, 3}

ConvShapes == UNION {[1..r -> ConvDims] : r \in 0..MaxConvRank}

\* tile sizes of an intrinsic that is not in the catalog
TileDims == {4, 16, 32}

Intrinsics ==
    {MfmaIntrinsic(o, m, n, k, i) :
        o \in ElementTypes, m \in TileDims, n \in TileDims, k \in TileDims,
        i \in ElementTypes}
    \cup {MfmaIntrinsicAll[j] : j \in 1..Len(MfmaIntrinsicAll)}

OptionalBool == {None, Some(TRUE), Some(FALSE)}

OptionalStrategy ==
    {None} \cup {Some(ReorderWorkgroupsStrategy[j]) :
                    j \in 1..Len(ReorderWorkgroupsStrategy)}

PipelineOptions ==
    {GpuPipelineOptions(p, b, r) :
        p \in OptionalBool, b \in OptionalBool, r \in OptionalStrategy}

WavesPerEu == {-1, 0, 1, 2, 3, 16}

Configurations ==
    {Configuration(64, <<256, 1, 1>>, mfma_f32_16x16x16_f16, <<64, 64, 32>>, 2, 2, o, w) :
        o \in PipelineOptions, w \in WavesPerEu}

\* problem sizes whose element types and dispatch kind vary
TypedProblemSizes ==
    {ProblemSize(MatmulSize(16, 16, 16, 1), ShapedType(<<16, 16>>, l),
                 ShapedType(<<16, 16>>, r), ShapedType(<<16, 16>>, o), d) :
        l \in ElementTypes, r \in ElementTypes, o \in ElementTypes, d \in DispatchKind}

\* problem sizes whose shapes vary, with two values of every other field
ShapedProblemSizes ==
    {ProblemSize(MatmulSize(m, 16, 16, 1), ShapedType(l, F16Type),
                 ShapedType(r, F16Type), ShapedType(o, F32Type), d) :
        m \in {16, 32}, l \in {<<2, 3, 3, 2>>, <<3, 3>>}, r \in ConvShapes,
        o \in ConvShapes, d \in {"conv", "mmt"}}

\* a compiler context, or None
Contexts == {None, Some("ctx0"), Some("ctx1")}

Loggers == {"logger0", "logger1"}

-----------------------------------------------------------------------------
(* State machine: a call of one function of the module, from the call to  *)
(* its return or to the exception that leaves it                          *)

\* the call has not started; it has returned or raised
Pending == [fn |-> "caller", line |-> 0]
Done == [fn |-> "caller", line |-> 1]
At(fn, line) == [fn |-> fn, line |-> line]

\* an object with no attribute assigned yet
NoAttrs == <<>>

\* the arguments each function of the module is called with
Inputs(f) ==
    CASE f = "ShapedType.__str__" ->
            {ShapedType(shape, t) : shape \in Shapes, t \in ElementTypes}
      [] f = "MfmaIntrinsic.__str__" -> Intrinsics
      [] f = "get_compatible_mfma_intrinsics" -> TypedProblemSizes
      [] f = "GpuPipelineOptions.all_default" -> PipelineOptions
      [] f = "GpuPipelineOptions.__str__" -> PipelineOptions
      [] f = "get_pipeline_config" -> Configurations
      [] f = "ConvDimInfo.from_rhs_res" ->
            {[rhs_shaped_type |-> ShapedType(rhs, F16Type),
              res_shaped_type |-> ShapedType(res, F32Type)] :
                rhs \in ConvShapes, res \in ConvShapes}
      [] f = "ConvDimInfo.from_problem_size" -> ShapedProblemSizes
      [] f = "CommonTypes" -> {[ctx |-> ctx] : ctx \in Contexts}
      [] f = "TunerContext" ->
            {[mlir_ctx |-> mlir_ctx, logger |-> logger] :
                mlir_ctx \in Contexts, logger \in Loggers}

Functions ==
    {"ShapedType.__str__", "MfmaIntrinsic.__str__", "get_compatible_mfma_intrinsics",
     "GpuPipelineOptions.all_default", "GpuPipelineOptions.__str__",
     "get_pipeline_config", "ConvDimInfo.from_rhs_res",
     "ConvDimInfo.from_problem_size", "CommonTypes", "TunerContext"}

Init ==
    /\ op \in Functions
    /\ arg \in Inputs(op)
    /\ ret = NoValue
    /\ err = ""
    /\ pc = Pending
    /\ tuner = NoAttrs
    /\ types = NoAttrs

\* the call of a function that runs in one step
Call(f, outcome) ==
    /\ pc = Pending
    /\ op = f
    /\ ret' = outcome.ret
    /\ err' = outcome.err
    /\ pc' = Done
    /\ UNCHANGED <<op, arg, tuner, types>>

CallShapedTypeStr ==
    Call("ShapedType.__str__", Returned(ShapedTypeStr(arg)))

CallMfmaIntrinsicStr ==
    Call("MfmaIntrinsic.__str__", Returned(MfmaIntrinsicStr(arg)))

CallGetCompatibleMfmaIntrinsics ==
    Call("get_compatible_mfma_intrinsics",
         Returned(get_compatible_mfma_intrinsics(arg)))

CallAllDefault ==
    Call("GpuPipelineOptions.all_default", Returned(all_default(arg)))

CallGpuPipelineOptionsStr ==
    Call("GpuPipelineOptions.__str__", Returned(GpuPipelineOptionsStr(arg)))

CallGetPipelineConfig ==
    Call("get_pipeline_config", Returned(get_pipeline_config(arg)))

CallFromRhsRes ==
    Call("ConvDimInfo.from_rhs_res",
         from_rhs_res(arg.rhs_shaped_type, arg.res_shaped_type))

CallFromProblemSize ==
    Call("ConvDimInfo.from_problem_size", from_problem_size(arg))

-----------------------------------------------------------------------------
(* Constructors of the context wrapper, statement by statement *)

\* the ctx parameter of the CommonTypes.__init__ that is running
CtxParam == IF op = "TunerContext" THEN arg.mlir_ctx ELSE arg.ctx

\* CommonTypes(ctx) called directly: enter __init__
NewCommonTypes ==
    /\ pc = Pending
    /\ op = "CommonTypes"
    /\ pc' = At("CommonTypes", 18)
    /\ UNCHANGED <<op, arg, ret, err, tuner, types>>

\* TunerContext(mlir_ctx, logger): enter __init__
NewTunerContext ==
    /\ pc = Pending
    /\ op = "TunerContext"
    /\ pc' = At("TunerContext", 34)
    /\ UNCHANGED <<op, arg, ret, err, tuner, types>>

\* self.mlir_ctx = mlir_ctx
TunerContextSetMlirCtx ==
    /\ pc = At("TunerContext", 34)
    /\ tuner' = tuner @@ ("mlir_ctx" :> arg.mlir_ctx)
    /\ pc' = At("TunerContext", 35)
    /\ UNCHANGED <<op, arg, ret, err, types>>

\* self.logger = logger
TunerContextSetLogger ==
    /\ pc = At("TunerContext", 35)
    /\ tuner' = tuner @@ ("logger" :> arg.logger)
    /\ pc' = At("TunerContext", 36)
    /\ UNCHANGED <<op, arg, ret, err, types>>

\* the right-hand side of self.type = CommonTypes(mlir_ctx): enter __init__
TunerContextCallCommonTypes ==
    /\ pc = At("TunerContext", 36)
    /\ pc' = At("CommonTypes", 18)
    /\ UNCHANGED <<op, arg, ret, err, tuner, types>>

\* CommonTypes.__init__ without its assertion
CommonTypesAssert_skipped ==
    /\ pc = At("CommonTypes", 18)
    /\ pc' = At("CommonTypes", CommonTypeFields[1][3])
    /\ UNCHANGED <<op, arg, ret, err, tuner, types>>

\* assert ctx: the exception leaves every constructor that is running
CommonTypesAssert ==
    /\ pc = At("CommonTypes", 18)
    /\ IF CtxParam = None
       THEN /\ err' = "AssertionError"
            /\ pc' = Done
       ELSE /\ err' = err
            /\ pc' = At("CommonTypes", CommonTypeFields[1][3])
    /\ UNCHANGED <<op, arg, ret, tuner, types>>

\* self.<name> = <the type got from ctx>; after the last one __init__ returns,
\* to the caller of CommonTypes(ctx) or to line 36 of TunerContext.__init__
CommonTypesSetField ==
    \E i \in 1..Len(CommonTypeFields) :
        /\ pc = At("CommonTypes", CommonTypeFields[i][3])
        /\ types' = types @@ (CommonTypeFields[i][1] :> CommonTypeFields[i][2])
        /\ IF i < Len(CommonTypeFields)
           THEN /\ pc' = At("CommonTypes", CommonTypeFields[i + 1][3])
                /\ ret' = ret
           ELSE IF op = "TunerContext"
           THEN /\ pc' = At("TunerContext", 37)
                /\ ret' = ret
           ELSE /\ pc' = Done
                /\ ret' = types'
        /\ UNCHANGED <<op, arg, err, tuner>>

\* the assignment of self.type = CommonTypes(mlir_ctx); __init__ returns
TunerContextSetType ==
    /\ pc = At("TunerContext", 37)
    /\ tuner' = tuner @@ ("type" :> types)
    /\ ret' = tuner'
    /\ pc' = Done
    /\ UNCHANGED <<op, arg, err, types>>

Next ==
    \/ CallShapedTypeStr
    \/ CallMfmaIntrinsicStr
    \/ CallGetCompatibleMfmaIntrinsics
    \/ CallAllDefault
    \/ CallGpuPipelineOptionsStr
    \/ CallGetPipelineConfig
    \/ CallFromRhsRes
    \/ CallFromProblemSize
    \/ NewCommonTypes
    \/ NewTunerContext
    \/ TunerContextSetMlirCtx
    \/ TunerContextSetLogger
    \/ TunerContextCallCommonTypes
    \/ CommonTypesAssert
    \/ CommonTypesSetField
    \/ TunerContextSetType

Spec == Init /\ [][Next]_vars

-----------------------------------------------------------------------------
(* Properties *)

\* the call of f has returned a value
Returns(f) == op = f /\ pc = Done /\ err = ""

Range(xs) == {xs[j] : j \in 1..Len(xs)}

IsPrefix(pat, s) == Len(pat) <= Len(s) /\ SubSeq(s, 1, Len(pat)) = pat

\* pat occurs in s
IsInfix(pat, s) ==
    \E i \in 0..(Len(s) - Len(pat)) : SubSeq(s, i + 1, i + Len(pat)) = pat

Count(c, s) == Cardinality({i \in 1..Len(s) : s[i] = c})

\* the printed name of each element type, and the same in upper case
TypeName(t) ==
    CASE t = IntegerType(1) -> <<"i", "1">>
      [] t = IntegerType(8) -> <<"i", "8">>
      [] t = IntegerType(16) -> <<"i", "1", "6">>
      [] t = IntegerType(32) -> <<"i", "3", "2">>
      [] t = Float8E4M3FNUZType -> <<"f", "8", "E", "4", "M", "3", "F", "N", "U", "Z">>
      [] t = Float8E5M2FNUZType -> <<"f", "8", "E", "5", "M", "2", "F", "N", "U", "Z">>
      [] t = F16Type -> <<"f", "1", "6">>
      [] t = F32Type -> <<"f", "3", "2">>
      [] t = BF16Type -> <<"b", "f", "1", "6">>

UpperTypeName(t) ==
    CASE t = IntegerType(1) -> <<"I", "1">>
      [] t = IntegerType(8) -> <<"I", "8">>
      [] t = IntegerType(16) -> <<"I", "1", "6">>
      [] t = IntegerType(32) -> <<"I", "3", "2">>
      [] t = Float8E4M3FNUZType -> <<"F", "8", "E", "4", "M", "3", "F", "N", "U", "Z">>
      [] t = Float8E5M2FNUZType -> <<"F", "8", "E", "5", "M", "2", "F", "N", "U", "Z">>
      [] t = F16Type -> <<"F", "1", "6">>
      [] t = F32Type -> <<"F", "3", "2">>
      [] t = BF16Type -> <<"B", "F", "1", "6">>

\* the decimal numeral of an integer of at most four digits
Decimal(n) ==
    LET d(j) == <<DigitChars[j + 1]>>
        a == IF n < 0 THEN -n ELSE n
        digits ==
            IF a < 10 THEN d(a)
            ELSE IF a < 100 THEN d(a \div 10) \o d(a % 10)
            ELSE IF a < 1000 THEN d(a \div 100) \o d((a \div 10) % 10) \o d(a % 10)
            ELSE d(a \div 1000) \o d((a \div 100) % 10) \o d((a \div 10) % 10)
                    \o d(a % 10)
    IN  IF n < 0 THEN <<"-">> \o digits ELSE digits

\* the catalog in its declaration order
Catalog ==
    << [output_type |-> F32Type, m |-> 16, n |-> 16, k |-> 16, input_type |-> F16Type],
       [output_type |-> F32Type, m |-> 32, n |-> 32, k |-> 8, input_type |-> F16Type],
       [output_type |-> IntegerType(32), m |-> 16, n |-> 16, k |-> 32,
        input_type |-> IntegerType(8)],
       [output_type |-> IntegerType(32), m |-> 32, n |-> 32, k |-> 16,
        input_type |-> IntegerType(8)] >>

\* C1: when the dispatch kind is not batch_matmul, every intrinsic that
\* get_compatible_mfma_intrinsics returns has its output type equal to the
\* result element type and its input type equal to both the lhs and the rhs
\* element type; so the result is empty when lhs and rhs element types differ.
C1_ExactTypes ==
    (Returns("get_compatible_mfma_intrinsics") /\ arg.dispatch_kind # "batch_matmul")
    => /\ \A j \in 1..Len(ret) :
            /\ ret[j].output_type = arg.res_type.element_type
            /\ ret[j].input_type = arg.lhs_type.element_type
            /\ ret[j].input_type = arg.rhs_type.element_type
       /\ (arg.lhs_type.element_type # arg.rhs_type.element_type => ret = <<>>)

\* a non-batch_matmul problem for which intrinsics are returned
C1_Witness ==
    /\ Returns("get_compatible_mfma_intrinsics")
    /\ arg.dispatch_kind = "mmt"
    /\ arg.lhs_type.element_type = F16Type
    /\ Len(ret) = 2

\* C2: for dispatch kind batch_matmul, an intrinsic of the catalog is returned
\* if and only if its output type equals the result element type, whatever
\* the lhs and rhs element types are.
C2_BatchMatmulOutputOnly ==
    (Returns("get_compatible_mfma_intrinsics") /\ arg.dispatch_kind = "batch_matmul")
    => \A j \in 1..Len(Catalog) :
            (Catalog[j] \in Range(ret))
                <=> (Catalog[j].output_type = arg.res_type.element_type)

\* a batch_matmul whose operand types match no intrinsic input, yet intrinsics
\* are returned
C2_Witness ==
    /\ Returns("get_compatible_mfma_intrinsics")
    /\ arg.dispatch_kind = "batch_matmul"
    /\ arg.lhs_type.element_type = BF16Type
    /\ arg.rhs_type.element_type = IntegerType(1)
    /\ ret # <<>>

\* the compatibility of the j-th catalog intrinsic with a problem size, as the
\* specification words it
Compatible(p, j) ==
    /\ Catalog[j].output_type = p.res_type.element_type
    /\ \/ p.dispatch_kind = "batch_matmul"
       \/ /\ Catalog[j].input_type = p.lhs_type.element_type
          /\ Catalog[j].input_type = p.rhs_type.element_type

\* C3: get_compatible_mfma_intrinsics is total and order-preserving: for every
\* problem size it returns (never raises) the list, possibly empty, of all the
\* compatible intrinsics of the four-entry catalog in the catalog's declaration
\* order, none repeated and none from outside the catalog.
C3_TotalOrderPreserving ==
    (op = "get_compatible_mfma_intrinsics" /\ pc = Done)
    => /\ err = ""
       /\ LET idx == {j \in 1..4 : Compatible(arg, j)}
          IN  /\ Len(ret) = Cardinality(idx)
              /\ \E pos \in [1..Len(ret) -> 1..4] :
                    /\ \A a \in 1..Len(ret) : pos[a] \in idx /\ ret[a] = Catalog[pos[a]]
                    /\ \A a, b \in 1..Len(ret) : a < b => pos[a] < pos[b]

\* both integer intrinsics are returned, in declaration order
C3_Witness ==
    /\ Returns("get_compatible_mfma_intrinsics")
    /\ ret = <<Catalog[3], Catalog[4]>>

\* C4: all_default() is true iff all three fields are unset (None); a field
\* set to false or to the strategy NONE counts as set; the rendering of an
\* all-default instance is exactly #iree_gpu.pipeline_options<>.
C4_AllDefault ==
    /\ Returns("GpuPipelineOptions.all_default")
        => /\ ret <=> (/\ arg.prefetch_shared_memory = None
                       /\ arg.no_reduce_shared_memory_bank_conflicts = None
                       /\ arg.reorder_workgroups_strategy = None)
           /\ (\/ arg.prefetch_shared_memory = Some(FALSE)
               \/ arg.no_reduce_shared_memory_bank_conflicts = Some(FALSE)
               \/ arg.reorder_workgroups_strategy = Some("NONE")) => ~ret
    /\ (/\ Returns("GpuPipelineOptions.__str__")
        /\ arg.prefetch_shared_memory = None
        /\ arg.no_reduce_shared_memory_bank_conflicts = None
        /\ arg.reorder_workgroups_strategy = None)
        => ret = <<"#", "i", "r", "e", "e", "_", "g", "p", "u", ".", "p", "i", "p", "e", "l", "i", "n", "e", "_", "o", "p", "t", "i", "o", "n", "s", "<", ">">>

\* all_default() of an instance whose only set field is the strategy NONE
C4_Witness ==
    /\ Returns("GpuPipelineOptions.all_default")
    /\ arg.prefetch_shared_memory = None
    /\ arg.no_reduce_shared_memory_bank_conflicts = None
    /\ arg.reorder_workgroups_strategy = Some("NONE")
    /\ ret = FALSE

\* the entry of each field as the compiler's attribute syntax has it, None for
\* an unset field
ExpectedEntries(o) ==
    LET bool(b) == IF b THEN <<"t", "r", "u", "e">> ELSE <<"f", "a", "l", "s", "e">>
        strategy(x) ==
            CASE x = "NONE" -> <<"N", "o", "n", "e">>
              [] x = "SWIZZLE" -> <<"S", "w", "i", "z", "z", "l", "e">>
              [] x = "TRANSPOSE" -> <<"T", "r", "a", "n", "s", "p", "o", "s", "e">>
    IN  << IF o.prefetch_shared_memory = None THEN None
           ELSE Some(<<"p", "r", "e", "f", "e", "t", "c", "h", "_", "s", "h", "a", "r", "e", "d", "_", "m", "e", "m", "o", "r", "y", " ", "=", " ">>
                        \o bool(o.prefetch_shared_memory[1])),
           IF o.no_reduce_shared_memory_bank_conflicts = None THEN None
           ELSE Some(<<"n", "o", "_", "r", "e", "d", "u", "c", "e", "_", "s", "h", "a", "r", "e", "d", "_", "m", "e", "m", "o", "r", "y", "_", "b", "a", "n", "k", "_", "c", "o", "n", "f", "l", "i", "c", "t", "s", " ", "=", " ">>
                        \o bool(o.no_reduce_shared_memory_bank_conflicts[1])),
           IF o.reorder_workgroups_strategy = None THEN None
           ELSE Some(<<"r", "e", "o", "r", "d", "e", "r", "_", "w", "o", "r", "k", "g", "r", "o", "u", "p", "s", "_", "s", "t", "r", "a", "t", "e", "g", "y", " ", "=", " ">>
                        \o strategy(o.reorder_workgroups_strategy[1])) >>

\* C5: the rendering of GpuPipelineOptions is #iree_gpu.pipeline_options<,
\* then one "name = value" entry per set field and none per unset field, joined
\* by ", " in the order prefetch_shared_memory,
\* no_reduce_shared_memory_bank_conflicts, reorder_workgroups_strategy, then >;
\* booleans are true/false and the strategy is None, Swizzle or Transpose.
C5_OptionsRendering ==
    Returns("GpuPipelineOptions.__str__")
    => LET e == ExpectedEntries(arg)
           sep(a, b) == IF a # <<>> /\ b # <<>> THEN <<",", " ">> ELSE <<>>
           item(x) == IF x = None THEN <<>> ELSE x[1]
           e12 == item(e[1]) \o sep(item(e[1]), item(e[2])) \o item(e[2])
           e123 == e12 \o sep(e12, item(e[3])) \o item(e[3])
       IN  ret = <<"#", "i", "r", "e", "e", "_", "g", "p", "u", ".", "p", "i", "p", "e", "l", "i", "n", "e", "_", "o", "p", "t", "i", "o", "n", "s", "<">> \o e123 \o <<">">>

\* the rendering of an instance with its three fields set
C5_Witness ==
    /\ Returns("GpuPipelineOptions.__str__")
    /\ arg = GpuPipelineOptions(Some(TRUE), Some(FALSE), Some("SWIZZLE"))
    /\ ret = <<"#", "i", "r", "e", "e", "_", "g", "p", "u", ".", "p", "i", "p", "e", "l", "i", "n", "e", "_", "o", "p", "t", "i", "o", "n", "s", "<", "p", "r", "e", "f", "e", "t", "c", "h", "_", "s", "h", "a", "r", "e", "d", "_", "m", "e", "m", "o", "r", "y", " ", "=", " ", "t", "r", "u", "e", ",", " ", "n", "o", "_", "r", "e", "d", "u", "c", "e", "_", "s", "h", "a", "r", "e", "d", "_", "m", "e", "m", "o", "r", "y", "_", "b", "a", "n", "k", "_", "c", "o", "n", "f", "l", "i", "c", "t", "s", " ", "=", " ", "f", "a", "l", "s", "e", ",", " ", "r", "e", "o", "r", "d", "e", "r", "_", "w", "o", "r", "k", "g", "r", "o", "u", "p", "s", "_", "s", "t", "r", "a", "t", "e", "g", "y", " ", "=", " ", "S", "w", "i", "z", "z", "l", "e", ">">>

\* C6: the result of get_pipeline_config contains
\* ", gpu_pipeline_options = <rendered options>" iff the options are not
\* all-default, and ", llvm_func_attrs = {"amdgpu-waves-per-eu" = "<n>"}" iff
\* waves_per_eu differs from 2; when both are present the options part comes
\* first; the result is empty exactly when waves_per_eu is 2 and the options
\* are all-default, and otherwise starts with ", ".
C6_PipelineConfig ==
    Returns("get_pipeline_config")
    => LET o == arg.gpu_pipeline_options
           unset == /\ o.prefetch_shared_memory = None
                    /\ o.no_reduce_shared_memory_bank_conflicts = None
                    /\ o.reorder_workgroups_strategy = None
           optionsPart == <<",", " ", "g", "p", "u", "_", "p", "i", "p", "e", "l", "i", "n", "e", "_", "o", "p", "t", "i", "o", "n", "s", " ", "=", " ">> \o GpuPipelineOptionsStr(o)
           wavesPart == <<",", " ", "l", "l", "v", "m", "_", "f", "u", "n", "c", "_", "a", "t", "t", "r", "s", " ", "=", " ", "{", "\"", "a", "m", "d", "g", "p", "u", "-", "w", "a", "v", "e", "s", "-", "p", "e", "r", "-", "e", "u", "\"", " ", "=", " ", "\"">>
                            \o Decimal(arg.waves_per_eu) \o <<"\"", "}">>
       IN  /\ IsInfix(optionsPart, ret) <=> ~unset
           /\ IsInfix(wavesPart, ret) <=> arg.waves_per_eu # 2
           /\ (~unset /\ arg.waves_per_eu # 2) => ret = optionsPart \o wavesPart
           /\ (ret = <<>>) <=> (arg.waves_per_eu = 2 /\ unset)
           /\ ret # <<>> => IsPrefix(<<",", " ">>, ret)

\* a configuration with a set option and three waves per execution unit
C6_Witness ==
    /\ Returns("get_pipeline_config")
    /\ arg.waves_per_eu = 3
    /\ arg.gpu_pipeline_options = GpuPipelineOptions(Some(TRUE), None, None)
    /\ ret = <<",", " ", "g", "p", "u", "_", "p", "i", "p", "e", "l", "i", "n", "e", "_", "o", "p", "t", "i", "o", "n", "s", " ", "=", " ", "#", "i", "r", "e", "e", "_", "g", "p", "u", ".", "p", "i", "p", "e", "l", "i", "n", "e", "_", "o", "p", "t", "i", "o", "n", "s", "<", "p", "r", "e", "f", "e", "t", "c", "h", "_", "s", "h", "a", "r", "e", "d", "_", "m", "e", "m", "o", "r", "y", " ", "=", " ", "t", "r", "u", "e", ">", ",", " ", "l", "l", "v", "m", "_", "f", "u", "n", "c", "_", "a", "t", "t", "r", "s", " ", "=", " ", "{", "\"", "a", "m", "d", "g", "p", "u", "-", "w", "a", "v", "e", "s", "-", "p", "e", "r", "-", "e", "u", "\"", " ", "=", " ", "\"", "3", "\"", "}">>

\* C7: an MfmaIntrinsic renders as MFMA_<OUT>_<M>x<N>x<K>_<IN>, the type names
\* in upper case and m, n, k in decimal; the four intrinsics of the catalog
\* render as MFMA_F32_16x16x16_F16, MFMA_F32_32x32x8_F16, MFMA_I32_16x16x32_I8
\* and MFMA_I32_32x32x16_I8, four pairwise distinct names.
C7_MfmaRendering ==
    Returns("MfmaIntrinsic.__str__")
    => LET names == << <<"M", "F", "M", "A", "_", "F", "3", "2", "_", "1", "6", "x", "1", "6", "x", "1", "6", "_", "F", "1", "6">>, <<"M", "F", "M", "A", "_", "F", "3", "2", "_", "3", "2", "x", "3", "2", "x", "8", "_", "F", "1", "6">>,
                       <<"M", "F", "M", "A", "_", "I", "3", "2", "_", "1", "6", "x", "1", "6", "x", "3", "2", "_", "I", "8">>, <<"M", "F", "M", "A", "_", "I", "3", "2", "_", "3", "2", "x", "3", "2", "x", "1", "6", "_", "I", "8">> >>
       IN  /\ ret = <<"M", "F", "M", "A", "_">> \o UpperTypeName(arg.output_type) \o <<"_">>
                        \o Decimal(arg.m) \o <<"x">> \o Decimal(arg.n) \o <<"x">>
                        \o Decimal(arg.k) \o <<"_">> \o UpperTypeName(arg.input_type)
           /\ \A j \in 1..4 : arg = Catalog[j] => ret = names[j]
           /\ \A i, j \in 1..4 : (arg = Catalog[i] /\ ret = names[j]) => i = j

\* the rendering of mfma_f32_16x16x16_f16()
C7_Witness ==
    /\ Returns("MfmaIntrinsic.__str__")
    /\ arg = Catalog[1]
    /\ ret = <<"M", "F", "M", "A", "_", "F", "3", "2", "_", "1", "6", "x", "1", "6", "x", "1", "6", "_", "F", "1", "6">>

\* C8: a ShapedType of rank >= 1 renders as its dimension tokens in shape
\* order joined by x, then x and the element type's name; a dimension of -1
\* renders as ? and any other as its decimal value, so shape [2,-1,4] of i32
\* renders as 2x?x4xi32, and there are as many ? as entries equal to -1.
C8_ShapedTypeRendering ==
    (Returns("ShapedType.__str__") /\ Len(arg.shape) >= 1)
    => LET token(d) == IF d = -1 THEN <<"?">> ELSE Decimal(d)
           tokens(j) ==
               IF j = 1 THEN token(arg.shape[1]) ELSE <<"x">> \o token(arg.shape[j])
           t1 == tokens(1)
           t2 == IF Len(arg.shape) >= 2 THEN t1 \o tokens(2) ELSE t1
           t3 == IF Len(arg.shape) >= 3 THEN t2 \o tokens(3) ELSE t2
           t4 == IF Len(arg.shape) >= 4 THEN t3 \o tokens(4) ELSE t3
           t5 == IF Len(arg.shape) >= 5 THEN t4 \o tokens(5) ELSE t4
       IN  /\ Len(arg.shape) <= 5
                => ret = t5 \o <<"x">> \o TypeName(arg.element_type)
           /\ (arg.shape = <<2, -1, 4>> /\ arg.element_type = IntegerType(32))
                => ret = <<"2", "x", "?", "x", "4", "x", "i", "3", "2">>
           /\ Count("?", ret)
                = Cardinality({j \in 1..Len(arg.shape) : arg.shape[j] = -1})

\* the rendering of ShapedType([2, -1, 4], i32)
C8_Witness ==
    /\ Returns("ShapedType.__str__")
    /\ arg.shape = <<2, -1, 4>>
    /\ arg.element_type = IntegerType(32)
    /\ ret = <<"2", "x", "?", "x", "4", "x", "i", "3", "2">>

\* C9: CommonTypes(None) fails with an assertion failure before any type field
\* is set, and TunerContext(None, logger) fails the same way, so no
\* TunerContext has its type attribute set without a non-null context.
C9_ContextRequired ==
    (op \in {"CommonTypes", "TunerContext"})
    => /\ (pc = Done /\ CtxParam = None)
            => (err = "AssertionError" /\ ret = NoValue)
       /\ (pc = Done /\ CtxParam # None) => err = ""
       /\ (CtxParam = None \/ err # "") => types = NoAttrs
       /\ op = "TunerContext"
            => \A a \in DOMAIN tuner : a = "type" => tuner["mlir_ctx"] # None

\* TunerContext(None, logger) has failed
C9_Witness ==
    /\ op = "TunerContext"
    /\ pc = Done
    /\ arg.mlir_ctx = None
    /\ err = "AssertionError"

\* C10: from_rhs_res yields a record exactly when the result shape and the rhs
\* shape both have rank 4: (n, oh, ow, oc) are the result dimensions and
\* (fh, fw, ic) the first three rhs dimensions; for any other rank it fails
\* and yields no record. from_problem_size(p) is
\* from_rhs_res(p.rhs_type, p.res_type), whatever p's other fields are.
C10_ConvDimInfo ==
    (pc = Done /\ op \in {"ConvDimInfo.from_rhs_res", "ConvDimInfo.from_problem_size"})
    => LET rhs == IF op = "ConvDimInfo.from_rhs_res"
                  THEN arg.rhs_shaped_type.shape ELSE arg.rhs_type.shape
           res == IF op = "ConvDimInfo.from_rhs_res"
                  THEN arg.res_shaped_type.shape ELSE arg.res_type.shape
       IN  IF Len(rhs) = 4 /\ Len(res) = 4
           THEN /\ err = ""
                /\ ret = [n |-> res[1], oh |-> res[2], ow |-> res[3], oc |-> res[4],
                          fh |-> rhs[1], fw |-> rhs[2], ic |-> rhs[3]]
           ELSE /\ err # ""
                /\ ret = NoValue

\* from_problem_size has yielded a record from an rhs shape whose third and
\* fourth dimensions differ
C10_Witness ==
    /\ Returns("ConvDimInfo.from_problem_size")
    /\ arg.rhs_type.shape = <<2, 3, 2, 3>>
    /\ arg.res_type.shape = <<3, 2, 2, 3>>
    /\ arg.lhs_type.shape = <<3, 3>>
    /\ ret.ic = 2

=============================================================================
